---- MODULE Spec2Model ----
(***************************************************************************)
(* MongoUserAPI (src/app/main.py): the five request handlers of the user   *)
(* service over one document collection, db.users.  Every store call of a  *)
(* handler (find_one, insert_one, update_one, delete_one, find().to_list)  *)
(* is one atomic step; between two store calls of one request the other    *)
(* requests may run (each handler awaits every store call).  What a        *)
(* handler does before its first store call reads no shared state and is   *)
(* part of the step of that call.                                          *)
(***************************************************************************)
EXTENDS Integers, Sequences, FiniteSets, TLC

VARIABLES
    users,      \* db.users: the stored documents, in insertion (natural) order
    nextOid,    \* the counter part of the next generated ObjectId
    req,        \* req[p]: the request in flight on connection p
    deleted,    \* history: the ObjectIds for which a delete_one removed a document
    updated,    \* history: the ObjectIds an update_one matched while the
                \* create_user that inserted them has yet to re-fetch them
    created     \* history: the 201 response of create_user that the latest store
                \* call of all requests produced (None after any other store call)

vars == <<users, nextOid, req, deleted, updated, created>>

-----------------------------------------------------------------------------
(* Bounds of the model *)

\* ObjectIds the store may generate (inserts over a whole behaviour)
MaxIds == 2

\* Connections, each carrying one request at a time
NConn == 2

\* Stored documents of the largest initial collection beyond the list cap
MaxOver == 2

Conns == 1..NConn

\* Optional values: <<>> is Python's None, <<v>> is the value v
None == <<>>

Some(v) == <<v>>

-----------------------------------------------------------------------------
(* bson.ObjectId: 12 bytes, written as 24 hex characters *)

OidBytes == 12

OidChars == 24

LowerHex == <<"0","1","2","3","4","5","6","7","8","9","a","b","c","d","e","f">>

UpperHex == <<"0","1","2","3","4","5","6","7","8","9","A","B","C","D","E","F">>

IsHexChar(c) == \E i \in 1..16 : LowerHex[i] = c \/ UpperHex[i] = c

HexVal(c) == (CHOOSE i \in 1..16 : LowerHex[i] = c \/ UpperHex[i] = c) - 1

\* ObjectId.is_valid(s): a string of 24 hex digits, of either case
IsValidOid(s) ==
    /\ Len(s) = OidChars
    /\ \A i \in 1..Len(s) : IsHexChar(s[i])

\* ObjectId(s): the 12 bytes the hex string denotes
ObjectIdOf(s) ==
    [i \in 1..OidBytes |-> 16 * HexVal(s[2 * i - 1]) + HexVal(s[2 * i])]

\* str(oid): the lowercase hex encoding
StrOf(oid) ==
    [i \in 1..OidChars |->
        IF i % 2 = 1 THEN LowerHex[(oid[(i + 1) \div 2] \div 16) + 1]
                     ELSE LowerHex[(oid[i \div 2] % 16) + 1]]

\* As NewObjectId, but the counter part never advances
NewObjectId_NoCounter(n) ==
    <<101, 74, 27, 192, 171, 205, 239, 18, 52, 0, 0, 0>>

\* The ObjectId the driver generates for the n-th inserted document that has
\* no _id: 4 bytes of time, 5 bytes fixed per process, a 3-byte counter.
NewObjectId(n) ==
    <<101, 74, 27, 192, 171, 205, 239, 18, 52,
      (n \div 65536) % 256, (n \div 256) % 256, n % 256>>

-----------------------------------------------------------------------------
(* The pydantic models: UserBase / UserCreate, UserUpdate, UserInDB *)

NameMin == 3

NameMax == 50

ValidName(n) == Len(n) >= NameMin /\ Len(n) <= NameMax

\* EmailStr: the addresses the email grammar accepts, among those a client sends
WellFormedEmails == {"a@x.com", "b@x.com"}

ValidEmail(e) == e \in WellFormedEmails

DaysIn(y, m) ==
    IF m \in {4, 6, 9, 11} THEN 30
    ELSE IF m # 2 THEN 31
    ELSE IF (y % 4 = 0 /\ y % 100 # 0) \/ y % 400 = 0 THEN 29 ELSE 28

\* datetime.date: <<year, month, day>> of the ISO form YYYY-MM-DD
ValidDate(d) ==
    /\ d[1] \in 1..9999
    /\ d[2] \in 1..12
    /\ d[3] \in 1..DaysIn(d[1], d[2])

UserFields == {"name", "email", "birth_date"}

ValidField(f, v) ==
    CASE f = "name" -> ValidName(v)
      [] f = "email" -> ValidEmail(v)
      [] f = "birth_date" -> ValidDate(v)

\* A request body: every field of UserFields, None when absent or null
UserCreateOk(body) == \A f \in UserFields : body[f] # None /\ ValidField(f, body[f][1])

UserUpdateOk(body) == \A f \in UserFields : body[f] = None \/ ValidField(f, body[f][1])

\* user_update.model_dump(exclude_none=True): the keys of the dumped dict
DumpedKeys(body) == {f \in UserFields : body[f] # None}

\* As UserInDB, but '_id' does not populate id: default_factory makes a new one
UserInDB_NewId(doc) ==
    [id |-> StrOf(NewObjectId(16777215)), name |-> doc.name, email |-> doc.email,
     birth_date |-> doc.birth_date]

\* UserInDB(**doc) as rendered in a response: _id as its string encoding
UserInDB(doc) ==
    [id |-> StrOf(doc._id), name |-> doc.name, email |-> doc.email,
     birth_date |-> doc.birth_date]

-----------------------------------------------------------------------------
(* The collection db.users *)

Min(a, b) == IF a <= b THEN a ELSE b

Matching(us, key, v) == {i \in 1..Len(us) : us[i][key] = v}

FirstOf(S) == CHOOSE i \in S : \A j \in S : i <= j

\* As FindOne, but the filter names a key no document has
FindOne_WrongKey(us, key, v) == None

\* find_one({key: v}): the first matching document, or None
FindOne(us, key, v) ==
    IF Matching(us, key, v) = {} THEN None ELSE Some(us[FirstOf(Matching(us, key, v))])

\* As InsertOne, but the insert is sent again after it succeeded
InsertOne_Twice(us, body, n) ==
    Append(Append(us, [_id |-> NewObjectId(n), name |-> body.name[1],
                       email |-> body.email[1], birth_date |-> body.birth_date[1]]),
           [_id |-> NewObjectId(n), name |-> body.name[1],
            email |-> body.email[1], birth_date |-> body.birth_date[1]])

\* insert_one(dict): the document gets a generated _id and goes last
InsertOne(us, body, n) ==
    Append(us, [_id |-> NewObjectId(n), name |-> body.name[1],
                email |-> body.email[1], birth_date |-> body.birth_date[1]])

\* As SetFields, but with $setOnInsert: a matched document stays as it is
SetFields_OnInsert(doc, body) == doc

\* $set on one document: the dumped keys take the body's values
SetFields(doc, body) ==
    [f \in DOMAIN doc |-> IF f \in DumpedKeys(body) THEN body[f][1] ELSE doc[f]]

MatchedCount(us, oid) == IF Matching(us, "_id", oid) = {} THEN 0 ELSE 1

\* As UpdateOne, but update_many with an empty filter
UpdateOne_Many(us, oid, body) ==
    IF Matching(us, "_id", oid) = {} THEN us
    ELSE [i \in 1..Len(us) |-> SetFields(us[i], body)]

\* As UpdateOne, but with upsert=True
UpdateOne_Upsert(us, oid, body) ==
    IF Matching(us, "_id", oid) = {}
    THEN Append(us, [_id |-> oid, name |-> "", email |-> "", birth_date |-> <<>>])
    ELSE [us EXCEPT ![FirstOf(Matching(us, "_id", oid))] = SetFields(@, body)]

\* update_one({"_id": oid}, {"$set": body}): the first matching document
UpdateOne(us, oid, body) ==
    IF Matching(us, "_id", oid) = {} THEN us
    ELSE [us EXCEPT ![FirstOf(Matching(us, "_id", oid))] = SetFields(@, body)]

RemoveAt(us, k) == [i \in 1..(Len(us) - 1) |-> IF i < k THEN us[i] ELSE us[i + 1]]

\* delete_one({"_id": oid}): the first matching document
DeleteOne(us, oid) ==
    IF Matching(us, "_id", oid) = {} THEN us
    ELSE RemoveAt(us, FirstOf(Matching(us, "_id", oid)))

\* As ToList, but to_list(length=None)
ToList_NoLimit(us, length) == us

\* find().to_list(length): the first `length` documents
ToList(us, length) == SubSeq(us, 1, Min(Len(us), length))

ListCap == 1000

-----------------------------------------------------------------------------
(* What clients send *)

Date1 == <<1990, 1, 15>>

Date2 == <<1985, 5, 20>>

Body(n, e, d) == [name |-> n, email |-> e, birth_date |-> d]

NoBody == Body(None, None, None)

\* Two valid bodies with different emails, one with a 2-character name
CreateBodies ==
    { Body(Some("Ann"), Some("a@x.com"), Some(Date1)),
      Body(Some("Bob"), Some("b@x.com"), Some(Date2)),
      Body(Some("Al"), Some("b@x.com"), Some(Date1)) }

\* No field, one field, two fields, and a 2-character name
UpdateBodies ==
    { NoBody,
      Body(Some("Bob"), None, None),
      Body(Some("Ann"), Some("a@x.com"), None),
      Body(Some("Al"), None, None) }

GeneratedIds == {StrOf(NewObjectId(n)) : n \in 0..(MaxIds - 1)}

\* The hex string with its digits a..f in upper case
Upper(s) ==
    [i \in 1..Len(s) |-> IF IsHexChar(s[i]) THEN UpperHex[HexVal(s[i]) + 1] ELSE s[i]]

\* Well-formed: the ids the store will generate.
\* Malformed: 23 characters, and 24 characters of which one is no hex digit.
UserIds ==
    GeneratedIds
    \cup {Tail(StrOf(NewObjectId(0))), [StrOf(NewObjectId(0)) EXCEPT ![OidChars] = "g"]}

\* Sent to get_user and delete_user: those, and the first id in upper case
PathIds == UserIds \cup {Upper(StrOf(NewObjectId(0)))}

-----------------------------------------------------------------------------
(* Requests *)

\* calls: the store calls the request has issued, in order
\* result: the response body, a sequence of UserInDB (empty when there is none)
Idle ==
    [pc |-> "idle", op |-> "", user_id |-> <<>>, body |-> NoBody, calls |-> <<>>,
     inserted_id |-> None, status |-> 0, detail |-> "", result |-> <<>>]

Begin(kind, id, b) == [Idle EXCEPT !.op = kind, !.user_id = id, !.body = b]

\* As Call, but the store call is issued again when it has returned
Call_Retry(r, what, at) == [r EXCEPT !.pc = at, !.calls = Append(Append(@, what), what)]

\* The handler awaits a store call and goes on at `at`
Call(r, what, at) == [r EXCEPT !.pc = at, !.calls = Append(@, what)]

\* The handler returned or raised: the response of the request
Respond(r, code, why, res) ==
    [r EXCEPT !.pc = "done", !.status = code, !.detail = why, !.result = res]

\* Requests that will still generate an ObjectId
Inserting == {p \in Conns : req[p].pc = "create_insert"}

\* The ObjectIds inserted by requests that have yet to re-fetch them
Unfetched == {req[p].inserted_id[1] : p \in {q \in Conns : req[q].pc = "create_refetch"}}

Init ==
    /\ users = <<>>
    /\ nextOid = 0
    /\ req = [p \in Conns |-> Idle]
    /\ deleted = {}
    /\ updated = {}
    /\ created = None

-----------------------------------------------------------------------------
(* POST /users/ : create_user *)

\* The framework validates the body as UserCreate (422 when it fails); then
\* if await db.users.find_one({"email": user.email}): raise 400
CreateUser(p, body) ==
    /\ req[p].pc = "idle"
    /\ UserCreateOk(body) => nextOid + Cardinality(Inserting) < MaxIds
    /\ req' = [req EXCEPT ![p] =
                 IF ~UserCreateOk(body)
                 THEN Respond(Begin("create", <<>>, body), 422, "RequestValidation", <<>>)
                 ELSE IF FindOne(users, "email", body.email[1]) # None
                 THEN Respond(Call(Begin("create", <<>>, body), "find_one", "done"),
                              400, "DuplicateEmail", <<>>)
                 ELSE Call(Begin("create", <<>>, body), "find_one", "create_insert")]
    /\ created' = IF UserCreateOk(body) THEN None ELSE created
    /\ UNCHANGED <<users, nextOid, deleted, updated>>

\* result = await db.users.insert_one(user_dict)
CreateInsert(p) ==
    /\ req[p].pc = "create_insert"
    /\ users' = InsertOne(users, req[p].body, nextOid)
    /\ nextOid' = nextOid + 1
    /\ req' = [req EXCEPT ![p] =
                 [Call(@, "insert_one", "create_refetch")
                    EXCEPT !.inserted_id = Some(NewObjectId(nextOid))]]
    /\ created' = None
    /\ UNCHANGED <<deleted, updated>>

\* created_user = await db.users.find_one({"_id": result.inserted_id})
CreateRefetch(p) ==
    /\ req[p].pc = "create_refetch"
    /\ LET created_user == FindOne(users, "_id", req[p].inserted_id[1]) IN
       req' = [req EXCEPT ![p] =
                 IF created_user # None
                 THEN Respond(Call(@, "find_one", "done"), 201, "",
                              <<UserInDB(created_user[1])>>)
                 ELSE Respond(Call(@, "find_one", "done"), 500, "InternalError", <<>>)]
    /\ created' = IF FindOne(users, "_id", req[p].inserted_id[1]) # None
                  THEN Some([oid |-> req[p].inserted_id[1], body |-> req[p].body,
                             result |-> req'[p].result[1],
                             updated |-> req[p].inserted_id[1] \in updated])
                  ELSE None
    /\ updated' = updated \ {req[p].inserted_id[1]}
    /\ UNCHANGED <<users, nextOid, deleted>>

-----------------------------------------------------------------------------
(* GET /users/ : list_users *)

ListUsers(p) ==
    /\ req[p].pc = "idle"
    /\ LET found == ToList(users, ListCap) IN
       req' = [req EXCEPT ![p] =
                 Respond(Call(Begin("list", <<>>, NoBody), "find", "done"), 200, "",
                         [i \in 1..Len(found) |-> UserInDB(found[i])])]
    /\ created' = None
    /\ UNCHANGED <<users, nextOid, deleted, updated>>

-----------------------------------------------------------------------------
(* GET /users/{user_id} : get_user *)

GetUser(p, user_id) ==
    /\ req[p].pc = "idle"
    /\ req' = [req EXCEPT ![p] =
                 IF ~IsValidOid(user_id)
                 THEN Respond(Begin("get", user_id, NoBody), 400, "InvalidId", <<>>)
                 ELSE LET user == FindOne(users, "_id", ObjectIdOf(user_id)) IN
                      IF user = None
                      THEN Respond(Call(Begin("get", user_id, NoBody), "find_one", "done"),
                                   404, "NotFound", <<>>)
                      ELSE Respond(Call(Begin("get", user_id, NoBody), "find_one", "done"),
                                   200, "", <<UserInDB(user[1])>>)]
    /\ created' = IF IsValidOid(user_id) THEN None ELSE created
    /\ UNCHANGED <<users, nextOid, deleted, updated>>

-----------------------------------------------------------------------------
(* PUT /users/{user_id} : update_user *)

\* As UpdateRejection, but the empty dict is checked before the id
UpdateRejection_EmptyFirst(user_id, body) ==
    IF ~UserUpdateOk(body) THEN <<422, "RequestValidation">>
    ELSE IF DumpedKeys(body) = {} THEN <<400, "EmptyUpdate">>
    ELSE IF ~IsValidOid(user_id) THEN <<400, "InvalidId">>
    ELSE <<>>

\* As UpdateRejection, but the empty dict is not checked
UpdateRejection_NoEmptyCheck(user_id, body) ==
    IF ~UserUpdateOk(body) THEN <<422, "RequestValidation">>
    ELSE IF ~IsValidOid(user_id) THEN <<400, "InvalidId">>
    ELSE <<>>

\* The framework validates the body as UserUpdate (422 when it fails); the
\* handler checks the id, then that the dumped dict is not empty.
\* <<status, detail>> of the rejection, or <<>> when the handler goes on.
UpdateRejection(user_id, body) ==
    IF ~UserUpdateOk(body) THEN <<422, "RequestValidation">>
    ELSE IF ~IsValidOid(user_id) THEN <<400, "InvalidId">>
    ELSE IF DumpedKeys(body) = {} THEN <<400, "EmptyUpdate">>
    ELSE <<>>

\* result = await db.users.update_one({"_id": ObjectId(user_id)}, {"$set": update_data})
UpdateUser(p, user_id, body) ==
    /\ req[p].pc = "idle"
    /\ IF UpdateRejection(user_id, body) # <<>>
       THEN /\ req' = [req EXCEPT ![p] =
                         Respond(Begin("update", user_id, body),
                                 UpdateRejection(user_id, body)[1],
                                 UpdateRejection(user_id, body)[2], <<>>)]
            /\ UNCHANGED <<users, updated, created>>
       ELSE LET oid == ObjectIdOf(user_id)
                matched_count == MatchedCount(users, oid)
            IN  /\ users' = UpdateOne(users, oid, body)
                /\ req' = [req EXCEPT ![p] =
                             IF matched_count = 0
                             THEN Respond(Call(Begin("update", user_id, body),
                                               "update_one", "done"),
                                          404, "NotFound", <<>>)
                             ELSE Call(Begin("update", user_id, body),
                                       "update_one", "update_refetch")]
                /\ updated' = IF matched_count = 1 /\ oid \in Unfetched
                              THEN updated \cup {oid}
                              ELSE updated
                /\ created' = None
    /\ UNCHANGED <<nextOid, deleted>>

\* As UpdateRefetch, but what find_one returned is answered without `if user:`
UpdateRefetch_Unchecked(p) ==
    /\ req[p].pc = "update_refetch"
    /\ LET user == FindOne(users, "_id", ObjectIdOf(req[p].user_id)) IN
       req' = [req EXCEPT ![p] =
                 Respond(Call(@, "find_one", "done"), 200, "",
                         [i \in 1..Len(user) |-> UserInDB(user[i])])]
    /\ created' = None
    /\ UNCHANGED <<users, nextOid, deleted, updated>>

\* user = await db.users.find_one({"_id": ObjectId(user_id)})
UpdateRefetch(p) ==
    /\ req[p].pc = "update_refetch"
    /\ LET user == FindOne(users, "_id", ObjectIdOf(req[p].user_id)) IN
       req' = [req EXCEPT ![p] =
                 IF user # None
                 THEN Respond(Call(@, "find_one", "done"), 200, "", <<UserInDB(user[1])>>)
                 ELSE Respond(Call(@, "find_one", "done"), 500, "InternalError", <<>>)]
    /\ created' = None
    /\ UNCHANGED <<users, nextOid, deleted, updated>>

-----------------------------------------------------------------------------
(* DELETE /users/{user_id} : delete_user *)

DeletedCount(us, oid) == IF Matching(us, "_id", oid) = {} THEN 0 ELSE 1

\* result = await db.users.delete_one({"_id": ObjectId(user_id)})
DeleteUser(p, user_id) ==
    /\ req[p].pc = "idle"
    /\ IF ~IsValidOid(user_id)
       THEN /\ req' = [req EXCEPT ![p] =
                         Respond(Begin("delete", user_id, NoBody), 400, "InvalidId", <<>>)]
            /\ UNCHANGED <<users, deleted, created>>
       ELSE LET oid == ObjectIdOf(user_id)
                deleted_count == DeletedCount(users, oid)
            IN  /\ users' = DeleteOne(users, oid)
                /\ req' = [req EXCEPT ![p] =
                             IF deleted_count = 0
                             THEN Respond(Call(Begin("delete", user_id, NoBody),
                                               "delete_one", "done"),
                                          404, "NotFound", <<>>)
                             ELSE Respond(Call(Begin("delete", user_id, NoBody),
                                               "delete_one", "done"),
                                          204, "", <<>>)]
                /\ deleted' = IF deleted_count = 1 THEN deleted \cup {oid} ELSE deleted
                /\ created' = None
    /\ UNCHANGED <<nextOid, updated>>

-----------------------------------------------------------------------------

\* The response is sent; the connection takes its next request
Finish(p) ==
    /\ req[p].pc = "done"
    /\ req' = [req EXCEPT ![p] = Idle]
    /\ UNCHANGED <<users, nextOid, deleted, updated, created>>

Next ==
    \/ \E p \in Conns, body \in CreateBodies : CreateUser(p, body)
    \/ \E p \in Conns : CreateInsert(p)
    \/ \E p \in Conns : CreateRefetch(p)
    \/ \E p \in Conns : ListUsers(p)
    \/ \E p \in Conns, user_id \in PathIds : GetUser(p, user_id)
    \/ \E p \in Conns, user_id \in UserIds, body \in UpdateBodies :
          UpdateUser(p, user_id, body)
    \/ \E p \in Conns : UpdateRefetch(p)
    \/ \E p \in Conns, user_id \in PathIds : DeleteUser(p, user_id)
    \/ \E p \in Conns : Finish(p)

Spec == Init /\ [][Next]_vars

-----------------------------------------------------------------------------
(* The service over a collection that already holds many users: list_users  *)
(* against collections below, at and above the cap, while users are deleted *)

\* The collection after n users with distinct emails were created
Stored(n) ==
    [k \in 1..n |->
        [_id |-> NewObjectId(k - 1), name |-> "Ann",
         email |-> "u" \o ToString(k) \o "@x.com", birth_date |-> Date1]]

ListSizes == {0, 1} \cup ((ListCap - 1)..(ListCap + MaxOver))

ListInit ==
    /\ users \in {Stored(n) : n \in ListSizes}
    /\ nextOid = Len(users)
    /\ req = [p \in Conns |-> Idle]
    /\ deleted = {}
    /\ updated = {}
    /\ created = None

ListNext ==
    \/ \E p \in Conns : ListUsers(p)
    \/ \E p \in Conns, user_id \in UserIds : DeleteUser(p, user_id)
    \/ \E p \in Conns : Finish(p)

ListSpec == ListInit /\ [][ListNext]_vars

-----------------------------------------------------------------------------
(* Vocabulary of the properties *)

StoredIds(us) == {us[i]._id : i \in 1..Len(us)}

EmailHeld(us, e) == \E i \in 1..Len(us) : us[i].email = e

\* In this step connection p takes a request of the kind `kind`
Takes(p, kind) == req[p].pc = "idle" /\ req'[p].op = kind

\* In this step the request on p goes from one place of its handler to another
Moves(p, from, to) == req[p].pc = from /\ req'[p].pc = to

Is(p, kind, code) == req[p].pc = "done" /\ req[p].op = kind /\ req[p].status = code

-----------------------------------------------------------------------------
(* C1 *)

\* C1: in every reachable state no two stored users share an email.
C1_UniqueEmails ==
    \A i, j \in 1..Len(users) : i # j => users[i].email # users[j].email

-----------------------------------------------------------------------------
(* C2 *)

\* C2: a create whose email is held by a stored user when it looks the email
\* up answers 400 DuplicateEmail, and the collection is the same afterwards.
C2_DuplicateRejected ==
    [][\A p \in Conns :
          ( /\ Takes(p, "create")
            /\ UserCreateOk(req'[p].body)
            /\ EmailHeld(users, req'[p].body.email[1]) )
          => ( /\ req'[p].pc = "done"
               /\ req'[p].status = 400
               /\ req'[p].detail = "DuplicateEmail"
               /\ users' = users )]_vars

C2_Witness ==
    \E p \in Conns : Is(p, "create", 400) /\ Len(users) > 0

-----------------------------------------------------------------------------
(* C3 *)

\* The request on p has just inserted a document or answered from its re-fetch
CreatedId(p) == req'[p].inserted_id[1]

\* C3 as stated: a create with a valid body whose email is not stored goes on
\* to answer 201 with a record whose id is well-formed and round-trips, and
\* exactly one stored document carries that id, whatever runs concurrently.
C3_CreateSucceeds ==
    [][\A p \in Conns :
          /\ ( /\ Takes(p, "create")
               /\ UserCreateOk(req'[p].body)
               /\ ~EmailHeld(users, req'[p].body.email[1]) )
             => req'[p].pc = "create_insert"
          /\ Moves(p, "create_refetch", "done")
             => ( /\ req'[p].status = 201
                  /\ Len(req'[p].result) = 1
                  /\ IsValidOid(req'[p].result[1].id)
                  /\ StrOf(ObjectIdOf(req'[p].result[1].id)) = req'[p].result[1].id
                  /\ Cardinality(Matching(users', "_id",
                                          ObjectIdOf(req'[p].result[1].id))) = 1 )]_vars

\* C3 amended: a create with a valid body whose email is not stored when it
\* looks the email up inserts exactly one document, under a fresh id that is
\* well-formed and round-trips and with the fields of the body; it answers 201
\* with that id when its re-fetch finds the document, which is then the one
\* stored document of that id, and 500 when the document is gone by then.
C3_CreateInsertsOnce ==
    [][\A p \in Conns :
          /\ ( /\ Takes(p, "create")
               /\ UserCreateOk(req'[p].body)
               /\ ~EmailHeld(users, req'[p].body.email[1]) )
             => req'[p].pc = "create_insert"
          /\ req[p].pc = "create_insert"
             => req'[p].pc \in {"create_insert", "create_refetch"}
          /\ Moves(p, "create_insert", "create_refetch")
             => ( /\ CreatedId(p) \notin StoredIds(users)
                  /\ IsValidOid(StrOf(CreatedId(p)))
                  /\ ObjectIdOf(StrOf(CreatedId(p))) = CreatedId(p)
                  /\ Len(users') = Len(users) + 1
                  /\ SubSeq(users', 1, Len(users)) = users
                  /\ users'[Len(users')] =
                        [_id |-> CreatedId(p), name |-> req[p].body.name[1],
                         email |-> req[p].body.email[1],
                         birth_date |-> req[p].body.birth_date[1]] )
          /\ Moves(p, "create_refetch", "done")
             => ( /\ users' = users
                  /\ IF CreatedId(p) \in StoredIds(users)
                     THEN /\ req'[p].status = 201
                          /\ Len(req'[p].result) = 1
                          /\ req'[p].result[1].id = StrOf(CreatedId(p))
                          /\ Cardinality(Matching(users', "_id", CreatedId(p))) = 1
                     ELSE /\ req'[p].status = 500
                          /\ req'[p].result = <<>> )]_vars

C3_Witness ==
    /\ \E p \in Conns : Is(p, "create", 201)
    /\ \E p \in Conns : Is(p, "create", 500)

-----------------------------------------------------------------------------
(* C4 *)

Fields(b) ==
    [name |-> b.name[1], email |-> b.email[1], birth_date |-> b.birth_date[1]]

\* In this step q gets the user of the create that has just answered 201
GetsCreated(q) ==
    /\ created # None
    /\ Takes(q, "get")
    /\ Len(req'[q].calls) = 1
    /\ ObjectIdOf(req'[q].user_id) = created[1].oid

\* C4 as stated: a get of the id that create has just returned, with no store
\* call of any request in between, answers 200 with that id and with the
\* name, email and birth_date of the create's body.
C4_GetReturnsInput ==
    [][\A q \in Conns :
          GetsCreated(q)
          => ( /\ req'[q].status = 200
               /\ req'[q].result =
                     <<[id |-> StrOf(created[1].oid)] @@ Fields(created[1].body)>> )]_vars

\* C4 amended: such a get answers 200 with the very record create returned,
\* whose id is the inserted id; the record is field-equal to the create's
\* body unless an update_one matched the document between the create's
\* insert_one and its re-fetch.
C4_GetReturnsCreated ==
    [][\A q \in Conns :
          GetsCreated(q)
          => ( /\ req'[q].status = 200
               /\ req'[q].result = <<created[1].result>>
               /\ req'[q].result[1].id = StrOf(created[1].oid)
               /\ ~created[1].updated
                  => req'[q].result =
                        <<[id |-> StrOf(created[1].oid)] @@ Fields(created[1].body)>>
             )]_vars

C4_Witness ==
    \E p, q \in Conns :
        /\ Is(p, "create", 201)
        /\ Is(q, "get", 200)
        /\ req[q].result = req[p].result
        /\ req[q].result = <<[id |-> StrOf(req[p].inserted_id[1])] @@ Fields(req[p].body)>>

-----------------------------------------------------------------------------
(* C5 *)

HexDigits ==
    {"0", "1", "2", "3", "4", "5", "6", "7", "8", "9",
     "a", "b", "c", "d", "e", "f", "A", "B", "C", "D", "E", "F"}

\* Exactly 24 hex characters
WellFormed(s) == Len(s) = 24 /\ \A i \in 1..Len(s) : s[i] \in HexDigits

AcceptedUpdate(b) ==
    /\ b.name # None => Len(b.name[1]) \in 3..50
    /\ b.email # None => b.email[1] \in WellFormedEmails
    /\ b.birth_date # None => ValidDate(b.birth_date[1])

-----------------------------------------------------------------------------
(* C6 *)

Present(b) == {f \in UserFields : b[f] # None}

\* C6: get, update with a present field and delete of a well-formed id that no
\* stored user has answer 404 NotFound and leave the collection as it was.
C6_AbsentIsNotFound ==
    [][\A p \in Conns :
          ( /\ \/ Takes(p, "get")
               \/ Takes(p, "delete")
               \/ Takes(p, "update") /\ AcceptedUpdate(req'[p].body)
                                     /\ Present(req'[p].body) # {}
            /\ WellFormed(req'[p].user_id)
            /\ ObjectIdOf(req'[p].user_id) \notin StoredIds(users) )
          => ( /\ req'[p].pc = "done"
               /\ req'[p].status = 404
               /\ req'[p].detail = "NotFound"
               /\ users' = users )]_vars

C6_Witness ==
    \E p, q \in Conns :
        /\ Is(p, "update", 404)
        /\ Is(q, "get", 404) \/ Is(q, "delete", 404)
        /\ Len(users) > 0

-----------------------------------------------------------------------------
(* C7 *)

\* C7: once a delete of an id answered 204, no stored document has that id
\* again, and every later get and delete of the id answers 404.
C7_DeleteIsFinal ==
    [][/\ deleted' \cap StoredIds(users') = {}
       /\ \A p \in Conns :
             ( /\ Takes(p, "get") \/ Takes(p, "delete")
               /\ WellFormed(req'[p].user_id)
               /\ ObjectIdOf(req'[p].user_id) \in deleted )
             => req'[p].status = 404 /\ req'[p].detail = "NotFound"]_vars

C7_Witness ==
    \E p, q \in Conns :
        /\ Is(p, "delete", 404) /\ ObjectIdOf(req[p].user_id) \in deleted
        /\ Is(q, "get", 404) /\ ObjectIdOf(req[q].user_id) \in deleted
        /\ nextOid = MaxIds

-----------------------------------------------------------------------------
(* C8 *)

\* C8: an update with no field present answers 400 without a store call and
\* leaves the collection as it was, whether or not the id is stored.
C8_EmptyUpdateRejected ==
    [][\A p \in Conns :
          (Takes(p, "update") /\ Present(req'[p].body) = {})
          => ( /\ req'[p].pc = "done"
               /\ req'[p].status = 400
               /\ WellFormed(req'[p].user_id) => req'[p].detail = "EmptyUpdate"
               /\ req'[p].calls = <<>>
               /\ users' = users )]_vars

C8_Witness ==
    \E p, q \in Conns :
        /\ Is(p, "update", 400) /\ req[p].detail = "EmptyUpdate"
        /\ ObjectIdOf(req[p].user_id) \in StoredIds(users)
        /\ Is(q, "update", 400) /\ req[q].detail = "EmptyUpdate"
        /\ ObjectIdOf(req[q].user_id) \notin StoredIds(users)

-----------------------------------------------------------------------------
(* C9 *)

IdsOf(us) == [i \in 1..Len(us) |-> us[i]._id]

Without(seq, k) == [i \in 1..(Len(seq) - 1) |-> IF i < k THEN seq[i] ELSE seq[i + 1]]

\* C9: an update that matched changes only the present fields of the document
\* of its id, to the values of its body; every document keeps its id from its
\* insertion to its removal, and no other step changes a stored document.
C9_UpdateFrame ==
    [][/\ \A p \in Conns :
             (Takes(p, "update") /\ req'[p].pc = "update_refetch")
             => ( /\ Len(users') = Len(users)
                  /\ \A i \in 1..Len(users) :
                        /\ users'[i]._id = users[i]._id
                        /\ users[i]._id # ObjectIdOf(req'[p].user_id)
                           => users'[i] = users[i]
                        /\ \A f \in UserFields \ Present(req'[p].body) :
                              users'[i][f] = users[i][f]
                        /\ users[i]._id = ObjectIdOf(req'[p].user_id)
                           => \A f \in Present(req'[p].body) :
                                 users'[i][f] = req'[p].body[f][1] )
       /\ \/ IdsOf(users') = IdsOf(users)
          \/ \E oid \in {NewObjectId(n) : n \in 0..nextOid} :
                IdsOf(users') = Append(IdsOf(users), oid)
          \/ \E k \in 1..Len(users) : IdsOf(users') = Without(IdsOf(users), k)
       /\ \A i \in 1..Len(users), j \in 1..Len(users') :
             (users'[j]._id = users[i]._id /\ users'[j] # users[i])
             => \E p \in Conns :
                   /\ Takes(p, "update")
                   /\ ObjectIdOf(req'[p].user_id) = users[i]._id]_vars

C9_Witness ==
    \E p \in Conns :
        /\ Is(p, "update", 200)
        /\ Cardinality(Present(req[p].body)) = 1
        /\ Len(users) = 2
        /\ \E i \in 1..2 : users[i].name = "Bob" /\ users[i].email = "a@x.com"

-----------------------------------------------------------------------------
(* C10 *)

\* C10: list answers 200 with min(n, 1000) records of the n stored users,
\* the i-th of them the i-th stored user, and so with the empty sequence when
\* nothing is stored.
C10_ListIsCapped ==
    [][\A p \in Conns :
          Takes(p, "list")
          => ( /\ req'[p].pc = "done"
               /\ req'[p].status = 200
               /\ Len(req'[p].result) <= 1000
               /\ Len(req'[p].result) = IF Len(users) < 1000 THEN Len(users) ELSE 1000
               /\ Len(users) = 0 => req'[p].result = <<>>
               /\ \A i \in 1..Len(req'[p].result) :
                     /\ i <= Len(users)
                     /\ req'[p].result[i].id = StrOf(users[i]._id)
                     /\ req'[p].result[i].name = users[i].name
                     /\ req'[p].result[i].email = users[i].email
                     /\ req'[p].result[i].birth_date = users[i].birth_date
               /\ users' = users )]_vars

C10_Witness ==
    \E p \in Conns :
        Is(p, "list", 200) /\ Len(req[p].result) = 1000 /\ Len(users) > 1000

-----------------------------------------------------------------------------
(* C11 *)

\* The response body that renders the stored document of the id
Rendered(us, oid) ==
    {<<[id |-> StrOf(oid), name |-> us[i].name, email |-> us[i].email,
        birth_date |-> us[i].birth_date]>> : i \in {j \in 1..Len(us) : us[j]._id = oid}}

\* C11: when the re-fetch of create (after its insert_one) or of update (after
\* its update_one matched) finds no document of the id, the request answers
\* 500 InternalError with no record; it answers 201 (create) or 200 (update)
\* only from a re-fetch that found the document, and then with that document
\* as it is stored at the re-fetch.
C11_RefetchMissIs500 ==
    [][\A p \in Conns :
          /\ Moves(p, "create_refetch", "done")
             => IF req[p].inserted_id[1] \in StoredIds(users)
                THEN /\ req'[p].status = 201
                     /\ req'[p].result \in Rendered(users, req[p].inserted_id[1])
                ELSE /\ req'[p].status = 500
                     /\ req'[p].detail = "InternalError"
                     /\ req'[p].result = <<>>
          /\ Moves(p, "update_refetch", "done")
             => IF ObjectIdOf(req[p].user_id) \in StoredIds(users)
                THEN /\ req'[p].status = 200
                     /\ req'[p].result \in Rendered(users, ObjectIdOf(req[p].user_id))
                ELSE /\ req'[p].status = 500
                     /\ req'[p].detail = "InternalError"
                     /\ req'[p].result = <<>>
          /\ (req[p].pc # "done" /\ req'[p].pc = "done" /\ req'[p].op = "create"
                /\ req'[p].status = 201)
             => req[p].pc = "create_refetch"
          /\ (req[p].pc # "done" /\ req'[p].pc = "done" /\ req'[p].op = "update"
                /\ req'[p].status = 200)
             => req[p].pc = "update_refetch"]_vars

\* An update whose document a delete removed before its re-fetch
C11_Witness ==
    \E p, q \in Conns :
        /\ Is(p, "update", 500)
        /\ req[p].calls = <<"update_one", "find_one">>
        /\ Is(q, "delete", 204)
        /\ ObjectIdOf(req[q].user_id) = ObjectIdOf(req[p].user_id)

-----------------------------------------------------------------------------
(* C12 *)

\* The stored document of the id carries the email
StoredWith(us, oid, e) == \E i \in 1..Len(us) : us[i]._id = oid /\ us[i].email = e

\* C12: two creates with the same email do not both win: no two requests
\* have answered 201 for the same email while the records both of them
\* inserted are stored with that email.
C12_OneCreateWins ==
    \A p, q \in Conns :
        ( /\ p # q
          /\ Is(p, "create", 201)
          /\ Is(q, "create", 201)
          /\ req[p].body.email = req[q].body.email )
        => ~( /\ req[p].inserted_id # req[q].inserted_id
              /\ StoredWith(users, req[p].inserted_id[1], req[p].body.email[1])
              /\ StoredWith(users, req[q].inserted_id[1], req[q].body.email[1]) )

-----------------------------------------------------------------------------
(* C13 *)

\* C13 as stated: no request has issued more than two store calls, and none
\* has issued the same call twice in a row.
C13_AtMostTwoCalls ==
    \A p \in Conns :
        /\ Len(req[p].calls) <= 2
        /\ \A i \in 1..(Len(req[p].calls) - 1) : req[p].calls[i] # req[p].calls[i + 1]

\* The store calls of a handler, in the order of its code
HandlerCalls(kind) ==
    CASE kind = "create" -> <<"find_one", "insert_one", "find_one">>
      [] kind = "list" -> <<"find">>
      [] kind = "get" -> <<"find_one">>
      [] kind = "update" -> <<"update_one", "find_one">>
      [] kind = "delete" -> <<"delete_one">>
      [] OTHER -> <<>>

\* C13 amended: the store calls a request has issued are an initial part of
\* the calls of its handler, each issued once and in order: at most three for
\* create (email lookup, insert, re-fetch), at most two for update (update,
\* re-fetch), at most one for list, get and delete.
C13_CallsFollowHandler ==
    \A p \in Conns :
        /\ Len(req[p].calls) <= Len(HandlerCalls(req[p].op))
        /\ req[p].calls = SubSeq(HandlerCalls(req[p].op), 1, Len(req[p].calls))
        /\ Len(req[p].calls) <= 3
        /\ req[p].op # "create" => Len(req[p].calls) <= 2
        /\ req[p].op \in {"list", "get", "delete"} => Len(req[p].calls) <= 1

C13_Witness ==
    \E p, q \in Conns :
        /\ Is(p, "create", 201) /\ Len(req[p].calls) = 3
        /\ Is(q, "update", 200) /\ Len(req[q].calls) = 2

-----------------------------------------------------------------------------
(* C14 *)

\* C14 as stated: an update that answers 200 returns a record that has, in
\* every field present in its body, the value of its body, whatever other
\* updates of the same id run meanwhile.
C14_ReturnsOwnValues ==
    [][\A p \in Conns :
          (Moves(p, "update_refetch", "done") /\ req'[p].status = 200)
          => \A f \in Present(req[p].body) :
                req'[p].result[1][f] = req[p].body[f][1]]_vars

\* The stored document of the id has the body's value in field f
Carries(us, oid, body, f) == \E i \in 1..Len(us) : us[i]._id = oid /\ us[i][f] = body[f][1]

\* C14 amended: an update that answers 200 returns the document as stored at
\* its re-fetch. After its update_one the document has the body's value in
\* every present field; while the request waits for its re-fetch a stored
\* document loses such a value only by the update_one of another request on
\* the same id that sets the field to another value; so the returned record
\* has the request's value in every present field that no such update set.
C14_ReturnsStoredValues ==
    [][\A p \in Conns :
          /\ (Takes(p, "update") /\ req'[p].pc = "update_refetch")
             => \A f \in Present(req'[p].body) :
                   Carries(users', ObjectIdOf(req'[p].user_id), req'[p].body, f)
          /\ (req[p].pc = "update_refetch" /\ req'[p].pc = "update_refetch")
             => \A f \in Present(req[p].body) :
                   ( /\ Carries(users, ObjectIdOf(req[p].user_id), req[p].body, f)
                     /\ ~Carries(users', ObjectIdOf(req[p].user_id), req[p].body, f)
                     /\ ObjectIdOf(req[p].user_id) \in StoredIds(users') )
                   => \E q \in Conns \ {p} :
                         /\ Takes(q, "update")
                         /\ req'[q].pc = "update_refetch"
                         /\ ObjectIdOf(req'[q].user_id) = ObjectIdOf(req[p].user_id)
                         /\ f \in Present(req'[q].body)
                         /\ req'[q].body[f] # req[p].body[f]
          /\ (Moves(p, "update_refetch", "done") /\ req'[p].status = 200)
             => ( /\ users' = users
                  /\ req'[p].result \in Rendered(users, ObjectIdOf(req[p].user_id))
                  /\ \A f \in Present(req[p].body) :
                        req'[p].result[1][f] = req[p].body[f][1]
                        <=> Carries(users, ObjectIdOf(req[p].user_id), req[p].body, f)
                )]_vars

\* Two updates of one id both answered 200, the one with the name of the other
C14_Witness ==
    \E p, q \in Conns :
        /\ Is(p, "update", 200) /\ Is(q, "update", 200)
        /\ ObjectIdOf(req[p].user_id) = ObjectIdOf(req[q].user_id)
        /\ req[p].body.name # None /\ req[q].body.name # None
        /\ req[p].body.name # req[q].body.name
        /\ req[p].result[1].name = req[q].body.name[1]
        /\ req[q].result[1].name = req[q].body.name[1]

====
